---- MODULE Spec2Model ----
(***************************************************************************)
(* Model of generate_qrcodes.py: the asset-ID sequencer gen_ids, the label *)
(* renderer add_qrcode_to_pdf, the document assembly gen_pdf and main.     *)
(*                                                                         *)
(* Two specifications share the variables:                                 *)
(*   SpecIds  a caller holding one list object calls gen_ids on it, and    *)
(*            again (gen_ids as a function, with Python's aliasing);       *)
(*   Spec     one run of main: assert, gen_ids, gen_pdf, pdf.output.       *)
(*                                                                         *)
(* Lengths are in tenths of a millimetre, so that MARGIN_LEFT = 7.5 mm is  *)
(* the integer 75.  Strings are sequences of one-character strings.        *)
(***************************************************************************)
EXTENDS Integers, Sequences, FiniteSets

\* ------------------------------------------------------------------ bounds
MaxStart == 1
MaxPages == 2
MaxExtraPages == 2
MaxCalls == 2
MaxWidth == 2

\* ------------------------------------------------------- program constants
QR_CODES_PER_PAGE == 35
MARGIN_LEFT == 75
MARGIN_TOP == 110
MARGIN_INSIDE == 50
STICKER_WIDTH == 350
STICKER_HEIGHT == 350

VARIABLES
  start_at,     \* args.start_at / the start_at of the latest gen_ids call
  num_pages,    \* args.num_pages / the num_pages of the latest gen_ids call
  extra_ids,    \* the caller's extra_ids object: None or a list (mutable)
  width,        \* args.width
  prefix,       \* args.prefix
  dir_exists,   \* os.path.exists(os.path.dirname(outfile))
  orig_ids,     \* ghost: the value of extra_ids as the caller built it
  extra_in,     \* ghost: the value of extra_ids on entry to the latest call
  ncalls,       \* ghost: number of gen_ids calls made
  asset_ids,    \* the pages returned by the latest gen_ids call
  pc,           \* position of the run
  tmpdir,       \* "none" | "exists" | "removed"
  tmpfiles,     \* names (id_str) of the .png files inside tmpdir
  pdf_pages,    \* the FPDF object: one sequence of placed images per page
  page_no,      \* gen_pdf: 1-based position of page_ids in asset_ids
  idx,          \* gen_pdf: enumerate index within page_ids
  outfile,      \* what this run wrote to the output path (<< >>: nothing)
  written,      \* whether pdf.output wrote the output path
  error         \* the exception that ended the run, "none" if none

vars == <<start_at, num_pages, extra_ids, width, prefix, dir_exists, orig_ids,
          extra_in, ncalls, asset_ids, pc, tmpdir, tmpfiles, pdf_pages,
          page_no, idx, outfile, written, error>>

idsVars == <<start_at, num_pages, extra_ids, orig_ids, extra_in, ncalls,
             asset_ids>>

pdfVars == <<tmpdir, tmpfiles, pdf_pages, page_no, idx, outfile, written>>

\* ----------------------------------------------------------------- helpers
Min(a, b) == IF a < b THEN a ELSE b

Max(a, b) == IF a > b THEN a ELSE b

Range(s) == {s[i] : i \in 1..Len(s)}

RECURSIVE Flatten(_)
Flatten(pages) ==
  IF pages = << >> THEN << >> ELSE Head(pages) \o Flatten(Tail(pages))

\* Python values for extra_ids: None (argparse's default for action='append')
\* or a list of ints.
None == [none |-> TRUE, items |-> << >>]

List(s) == [none |-> FALSE, items |-> s]

\* bool(x) for None or a list: None and the empty list are falsy.
Truthy(x) == ~x.none /\ Len(x.items) > 0

\* ------------------------------------------------------------------ gen_ids
\* len(range(n)): a negative n gives the empty range.
RangeLen(n) == IF n > 0 THEN n ELSE 0

\* ids = extra_ids or []   (line 108): the value ids starts with.
Ids0(extra) == IF Truthy(extra) THEN extra.items ELSE << >>

\* Faulty variant: padding starts one past start_at.
PaddingOffByOne(ids, s, n) ==
  [k \in 1..RangeLen(QR_CODES_PER_PAGE * n - Len(ids)) |-> k + s]

\* Faulty variant: padding skips the offsets the explicit IDs "consumed".
PaddingSkipsConsumed(ids, s, n) ==
  [k \in 1..RangeLen(QR_CODES_PER_PAGE * n - Len(ids)) |-> (k - 1) + s + Len(ids)]

\* Faulty variant: padding skips every value that is already an explicit ID.
RECURSIVE PadSkipping(_, _, _)
PadSkipping(used, next, count) ==
  IF count = 0 THEN << >>
  ELSE IF next \in used THEN PadSkipping(used, next + 1, count)
       ELSE <<next>> \o PadSkipping(used, next + 1, count - 1)

PaddingFiltered(ids, s, n) ==
  PadSkipping(Range(ids), s, RangeLen(QR_CODES_PER_PAGE * n - Len(ids)))

\* The generator of lines 111-112: i + start_at for i in range(35*n - len(ids)).
Padding(ids, s, n) ==
  [k \in 1..RangeLen(QR_CODES_PER_PAGE * n - Len(ids)) |-> (k - 1) + s]

\* ids after ids.extend(...)  (lines 108-112).
Extended(extra, s, n) == Ids0(extra) \o Padding(Ids0(extra), s, n)

\* Faulty variant: only whole pages are returned.
ChunksWholeOnly(ids) ==
  [c \in 1..(Len(ids) \div QR_CODES_PER_PAGE) |->
     SubSeq(ids, QR_CODES_PER_PAGE * (c - 1) + 1, QR_CODES_PER_PAGE * c)]

\* [ids[i:i + 35] for i in range(0, len(ids), 35)]   (lines 114-116).
Chunks(ids) ==
  [c \in 1..((Len(ids) + QR_CODES_PER_PAGE - 1) \div QR_CODES_PER_PAGE) |->
     SubSeq(ids, QR_CODES_PER_PAGE * (c - 1) + 1,
            Min(QR_CODES_PER_PAGE * c, Len(ids)))]

\* The caller's object after the call: a truthy list is aliased by ids and
\* extended in place; None and the empty list are left alone (ids is a new
\* list then).
ArgAfter(extra, s, n) ==
  IF Truthy(extra) THEN List(Extended(extra, s, n)) ELSE extra

\* One call gen_ids(s, n, extra_ids) on the caller's object.
GenIds(s, n) ==
  /\ start_at' = s
  /\ num_pages' = n
  /\ extra_in' = extra_ids
  /\ extra_ids' = ArgAfter(extra_ids, s, n)
  /\ asset_ids' = Chunks(Extended(extra_ids, s, n))
  /\ ncalls' = ncalls + 1
  /\ UNCHANGED orig_ids

\* ------------------------------------------------------------------- inputs
StartAts == (0..MaxStart) \cup {100}

PageCounts == 1..MaxPages

\* Lengths around the page boundaries 0, 35, 70, ...
ExtraLens ==
  {l \in 0..(QR_CODES_PER_PAGE * MaxExtraPages + 2) :
     \E k \in 0..MaxExtraPages :
        l - QR_CODES_PER_PAGE * k \in {-2, -1, 0, 1, 2}}

ExtraBases == {5, 200}

ExtraShapes == {"const", "up", "down"}

ExtraList(len, base, shape) ==
  [i \in 1..len |->
     CASE shape = "const" -> base
       [] shape = "up" -> base + (i - 1)
       [] shape = "down" -> base + (len - i)]

ExtraInputs ==
  {None} \cup
  {List(ExtraList(l, b, sh)) : l \in ExtraLens, b \in ExtraBases,
                               sh \in ExtraShapes}

InitRun ==
  /\ width = 0
  /\ prefix = << >>
  /\ dir_exists = TRUE
  /\ tmpdir = "none"
  /\ tmpfiles = {}
  /\ pdf_pages = << >>
  /\ page_no = 0
  /\ idx = 0
  /\ outfile = << >>
  /\ written = FALSE
  /\ error = "none"

\* ------------------------------------------------------------------ SpecIds
InitIds ==
  /\ start_at \in StartAts
  /\ num_pages \in PageCounts
  /\ extra_ids \in ExtraInputs
  /\ orig_ids = extra_ids
  /\ extra_in = extra_ids
  /\ ncalls = 0
  /\ asset_ids = << >>
  /\ pc = "lib"
  /\ InitRun

\* The first call, with the arguments drawn in InitIds.
GenIdsCall ==
  /\ pc = "lib"
  /\ ncalls = 0
  /\ GenIds(start_at, num_pages)
  /\ UNCHANGED <<width, prefix, dir_exists, pc, error>>
  /\ UNCHANGED pdfVars

\* A further call passing the same list object, with any arguments.
GenIdsAgain ==
  /\ pc = "lib"
  /\ ncalls \in 1..(MaxCalls - 1)
  /\ \E s \in StartAts, n \in PageCounts : GenIds(s, n)
  /\ UNCHANGED <<width, prefix, dir_exists, pc, error>>
  /\ UNCHANGED pdfVars

NextIds == GenIdsCall \/ GenIdsAgain

SpecIds == InitIds /\ [][NextIds]_vars

\* -------------------------------------------------------- add_qrcode_to_pdf
DigitChars == <<"0", "1", "2", "3", "4", "5", "6", "7", "8", "9">>

\* str(n) for n >= 0.
RECURSIVE Decimal(_)
Decimal(n) ==
  IF n < 10 THEN <<DigitChars[n + 1]>>
  ELSE Decimal(n \div 10) \o <<DigitChars[(n % 10) + 1]>>

\* s left-padded with zeros to w characters; unchanged when it has w or more.
ZeroFill(s, w) == [i \in 1..(w - Len(s)) |-> "0"] \o s

\* The inner replacement field of '{asset_id:0{width}d}' gives the format
\* spec '0' + str(width) + 'd'; a negative width puts a '-' where the spec
\* allows none and format() raises ValueError.
FormatSpecValid(w) == w >= 0

\* Faulty variant: the ID is cut to its last w digits.
FormatIdTruncated(id, w) ==
  LET s == ZeroFill(Decimal(id), w)
  IN  SubSeq(s, Len(s) - w + 1, Len(s))

\* format(asset_id, '0<w>d') for w >= 0: sign-aware zero padding  (line 34).
FormatId(id, w) ==
  IF id >= 0 THEN ZeroFill(Decimal(id), w)
  ELSE <<"-">> \o ZeroFill(Decimal(-id), w - 1)

\* qr.add_data('{}{}'.format(prefix, id_str))   (line 38).
Payload(pre, id_str) == pre \o id_str

\* Faulty variant: columns and rows exchanged.
XPosByRow(i) == MARGIN_LEFT + (i \div 5) * (STICKER_WIDTH + MARGIN_INSIDE)

\* x_pos   (line 59).
XPos(i) == MARGIN_LEFT + (i % 5) * (STICKER_WIDTH + MARGIN_INSIDE)

\* y_pos   (line 60).
YPos(i) == MARGIN_TOP + (i \div 5) * (STICKER_HEIGHT + MARGIN_INSIDE)

\* The label of asset_id at index i: the image saved as <id_str>.png, with
\* the QR payload, the caption drawn on it and the place pdf.image puts it.
Label(id, w, pre, i) ==
  [asset_id |-> id,
   caption |-> FormatId(id, w),
   payload |-> Payload(pre, FormatId(id, w)),
   file |-> FormatId(id, w),
   x |-> XPos(i),
   y |-> YPos(i)]

\* ------------------------------------------------------------------ gen_pdf
\* Faulty variant: the directory is removed only when the block ends normally.
WithExitNoFinally(raised) == IF raised THEN "exists" ELSE "removed"

\* TemporaryDirectory.__exit__: the directory and its files are removed,
\* whether the with block ended normally or an exception left it  (line 78).
WithExit(raised) == "removed"

\* An exception e leaves gen_pdf from inside the with block, after the files
\* in saved were written; it is not caught and ends the run.
RaiseInWith(e, saved) ==
  /\ pc' = "failed"
  /\ error' = e
  /\ tmpdir' = WithExit(TRUE)
  /\ tmpfiles' = IF WithExit(TRUE) = "removed" THEN {} ELSE saved
  /\ UNCHANGED <<pdf_pages, page_no, idx, outfile, written>>

\* pdf = fpdf.FPDF(); tmpdir = TemporaryDirectory().__enter__()  (lines 76-78).
EnterWith ==
  /\ pc = "gen_pdf"
  /\ pdf_pages' = << >>
  /\ tmpdir' = "exists"
  /\ tmpfiles' = {}
  /\ page_no' = 1
  /\ pc' = "page"
  /\ UNCHANGED <<idx, outfile, written, error, width, prefix, dir_exists>>
  /\ UNCHANGED idsVars

\* pdf.add_page() for the next page_ids  (lines 79-80).
AddPage ==
  /\ pc = "page"
  /\ page_no <= Len(asset_ids)
  /\ pdf_pages' = Append(pdf_pages, << >>)
  /\ idx' = 0
  /\ pc' = IF Len(asset_ids[page_no]) > 0 THEN "label" ELSE "page"
  /\ page_no' = IF Len(asset_ids[page_no]) > 0 THEN page_no ELSE page_no + 1
  /\ UNCHANGED <<tmpdir, tmpfiles, outfile, written, error, width, prefix,
                 dir_exists>>
  /\ UNCHANGED idsVars

\* One call add_qrcode_to_pdf(pdf, asset_id, width, prefix, tmpdir, idx) and
\* the loop control that follows it  (lines 82-83, 34-62).
AddQrcode ==
  /\ pc = "label"
  /\ LET id == asset_ids[page_no][idx + 1]
         img == Label(id, width, prefix, idx)
         last == idx + 1 = Len(asset_ids[page_no])
     IN  \/ /\ ~FormatSpecValid(width)
            /\ RaiseInWith("ValueError", tmpfiles)
         \/ /\ FormatSpecValid(width)
            /\ RaiseInWith("RenderError", tmpfiles)
         \/ /\ FormatSpecValid(width)
            /\ tmpdir = "exists"
            /\ RaiseInWith("ImageError", tmpfiles \cup {img.file})
         \/ /\ FormatSpecValid(width)
            /\ IF tmpdir = "exists"
               THEN /\ tmpfiles' = tmpfiles \cup {img.file}
                    /\ pdf_pages' = [pdf_pages EXCEPT
                                       ![page_no] = Append(@, img)]
                    /\ idx' = IF last THEN 0 ELSE idx + 1
                    /\ page_no' = IF last THEN page_no + 1 ELSE page_no
                    /\ pc' = IF last THEN "page" ELSE "label"
                    /\ UNCHANGED <<tmpdir, outfile, written, error>>
               ELSE RaiseInWith("FileNotFoundError", tmpfiles)
  /\ UNCHANGED <<width, prefix, dir_exists>>
  /\ UNCHANGED idsVars

\* The loops are over: the with block ends normally  (line 78).
ExitWith ==
  /\ pc = "page"
  /\ page_no > Len(asset_ids)
  /\ tmpdir' = WithExit(FALSE)
  /\ tmpfiles' = IF WithExit(FALSE) = "removed" THEN {} ELSE tmpfiles
  /\ pc' = "output"
  /\ UNCHANGED <<pdf_pages, page_no, idx, outfile, written, error, width,
                 prefix, dir_exists>>
  /\ UNCHANGED idsVars

\* pdf.output(outfile, 'F'): the document is written, or opening or writing
\* the file raises  (line 85).
Output ==
  /\ pc = "output"
  /\ \/ /\ dir_exists
        /\ outfile' = pdf_pages
        /\ written' = TRUE
        /\ pc' = "done"
        /\ UNCHANGED error
     \/ /\ pc' = "failed"
        /\ error' = "OutputError"
        /\ UNCHANGED <<outfile, written>>
  /\ UNCHANGED <<tmpdir, tmpfiles, pdf_pages, page_no, idx, width, prefix,
                 dir_exists>>
  /\ UNCHANGED idsVars

\* --------------------------------------------------------------------- main
\* Faulty variant: the assertion is not evaluated.
AssertSkipped(exists) == TRUE

\* assert os.path.exists(os.path.dirname(outfile))   (line 136).
AssertPasses(exists) == exists

AssertOutdir ==
  /\ pc = "main"
  /\ IF AssertPasses(dir_exists)
     THEN pc' = "gen_ids" /\ UNCHANGED error
     ELSE pc' = "failed" /\ error' = "AssertionError"
  /\ UNCHANGED <<width, prefix, dir_exists>>
  /\ UNCHANGED idsVars
  /\ UNCHANGED pdfVars

\* gen_ids(args.start_at, args.num_pages, args.extra_ids), the argument of
\* the gen_pdf call  (line 138).
CallGenIds ==
  /\ pc = "gen_ids"
  /\ GenIds(start_at, num_pages)
  /\ pc' = "gen_pdf"
  /\ UNCHANGED <<width, prefix, dir_exists, error>>
  /\ UNCHANGED pdfVars

Widths == (0..MaxWidth) \cup {-1, 5}

Prefixes == {<< >>, <<"A", "-">>}

\* --extra_ids as argparse collects them: absent, or a non-empty list.
MainExtras ==
  {None, List(<<5, 6>>), List(<<-7, 7, 7>>),
   List(ExtraList(QR_CODES_PER_PAGE + 1, 5, "up"))}

Init ==
  /\ start_at \in StartAts
  /\ num_pages \in PageCounts
  /\ extra_ids \in MainExtras
  /\ width \in Widths
  /\ prefix \in Prefixes
  /\ dir_exists \in BOOLEAN
  /\ orig_ids = extra_ids
  /\ extra_in = extra_ids
  /\ ncalls = 0
  /\ asset_ids = << >>
  /\ pc = "main"
  /\ tmpdir = "none"
  /\ tmpfiles = {}
  /\ pdf_pages = << >>
  /\ page_no = 0
  /\ idx = 0
  /\ outfile = << >>
  /\ written = FALSE
  /\ error = "none"

Next ==
  \/ AssertOutdir
  \/ CallGenIds
  \/ EnterWith
  \/ AddPage
  \/ AddQrcode
  \/ ExitWith
  \/ Output

Spec == Init /\ [][Next]_vars

\* ---------------------------------------------------- properties of gen_ids
\* A gen_ids call has returned.
Returned == pc = "lib" /\ ncalls >= 1

\* The IDs of the returned pages, page by page, then in within-page order.
AllIds == Flatten(asset_ids)

\* The explicit IDs the latest call was given (none for None).
InIds == extra_in.items

\* The IDs that follow the explicit IDs in the output.
PadIds == SubSeq(AllIds, Len(InIds) + 1, Len(AllIds))

\* C1: the total ID count returned by gen_ids is a multiple of 35 and at
\* least 35 * num_pages, and every returned page, the last one included,
\* holds exactly 35 IDs, whatever the length of extra_ids.
C1_EveryPageFull ==
  Returned =>
    /\ Len(AllIds) % 35 = 0
    /\ Len(AllIds) >= 35 * num_pages
    /\ \A p \in 1..Len(asset_ids) : Len(asset_ids[p]) = 35

\* C2: with extra_ids empty or absent, gen_ids returns exactly num_pages
\* pages of 35 IDs each, holding start_at, start_at + 1, ...,
\* start_at + 35 * num_pages - 1 in that order.
C2_ContiguousPages ==
  (Returned /\ Len(InIds) = 0) =>
    /\ Len(asset_ids) = num_pages
    /\ \A p \in 1..Len(asset_ids) :
         /\ Len(asset_ids[p]) = 35
         /\ \A i \in 1..35 : asset_ids[p][i] = start_at + 35 * (p - 1) + (i - 1)

C2_Witness ==
  /\ Returned
  /\ extra_in.none
  /\ num_pages = 2
  /\ Len(asset_ids) = 2
  /\ asset_ids[2][35] = start_at + 69

\* C3: for a non-empty extra_ids of any length, the returned IDs read page
\* by page begin with exactly the elements of extra_ids in the order
\* supplied: none is dropped, reordered or deduplicated.
C3_ExplicitFirst ==
  (Returned /\ Len(InIds) > 0) =>
    /\ Len(AllIds) >= Len(InIds)
    /\ SubSeq(AllIds, 1, Len(InIds)) = InIds

C3_Witness ==
  /\ Returned
  /\ Len(InIds) > 35 * num_pages
  /\ Len(InIds) % 35 # 0
  /\ Cardinality(Range(InIds)) = 1
  /\ SubSeq(AllIds, 1, Len(InIds)) = InIds

\* C4: every ID that follows the explicit IDs is start_at + k, where k is
\* its 0-based position among the padding IDs, with no gap and no skip.
C4_PaddingContiguous ==
  Returned =>
    \A j \in (Len(InIds) + 1)..Len(AllIds) :
       AllIds[j] = start_at + (j - Len(InIds) - 1)

C4_Witness ==
  /\ Returned
  /\ start_at = 100
  /\ num_pages = 1
  /\ InIds = <<5, 6>>
  /\ asset_ids = << <<5, 6>> \o [k \in 1..33 |-> 99 + k] >>

\* C5 as stated: no padding ID has the value of an element of extra_ids.
C5_NoSharedId ==
  Returned => \A j \in 1..Len(PadIds) : PadIds[j] \notin Range(InIds)

\* C5 as amended: the padding IDs are pairwise distinct, and an element of
\* extra_ids recurs among them exactly when it lies in
\* start_at .. start_at + (35 * num_pages - len(extra_ids)) - 1: gen_ids
\* filters nothing.
C5_SharedOnlyInPadRange ==
  Returned =>
    /\ Cardinality(Range(PadIds)) = Len(PadIds)
    /\ \A e \in Range(InIds) :
         (e \in Range(PadIds)) <=>
           (e - start_at \in 0..(35 * num_pages - Len(InIds) - 1))

C5_Witness ==
  /\ Returned
  /\ Len(InIds) > 0
  /\ Len(PadIds) > 0
  /\ Range(PadIds) \cap Range(InIds) = {}

\* C6: a gen_ids call leaves the caller's extra_ids list unchanged, and
\* what it returns is a function of start_at, num_pages and the value of
\* the list as the caller built it, however many calls came before.
C6_PureFunction ==
  Returned =>
    /\ extra_ids = extra_in
    /\ extra_ids = orig_ids
    /\ asset_ids = Chunks(Extended(orig_ids, start_at, num_pages))

\* ------------------------------------------------------ properties of a run
\* Every image placed on the PDF so far.
PlacedImages == UNION {Range(pdf_pages[p]) : p \in 1..Len(pdf_pages)}

\* C7: the output PDF is written only after the output-directory check has
\* passed and every ID of every page has been rendered: with the directory
\* missing the run fails before any ID is generated, any temporary directory
\* is created or any label is rendered; a failed run has written nothing;
\* a finished run has written one PDF page per page of gen_ids with one
\* label per ID.
C7_CompleteOrNothing ==
  /\ written =>
       /\ dir_exists
       /\ pc = "done"
       /\ error = "none"
       /\ Len(outfile) = Len(asset_ids)
       /\ \A p \in 1..Len(asset_ids) :
            /\ Len(outfile[p]) = Len(asset_ids[p])
            /\ \A i \in 1..Len(asset_ids[p]) :
                 outfile[p][i].asset_id = asset_ids[p][i]
  /\ ~dir_exists =>
       /\ pc \in {"main", "failed"}
       /\ ncalls = 0
       /\ asset_ids = << >>
       /\ tmpdir = "none"
       /\ tmpfiles = {}
       /\ pdf_pages = << >>
       /\ ~written
  /\ pc = "failed" => (~written /\ outfile = << >> /\ error # "none")
  /\ pc = "done" => written

C7_Witness ==
  /\ pc = "done"
  /\ written
  /\ Len(outfile) = 2
  /\ Len(outfile[2]) = 1
  /\ Len(extra_in.items) = 36

\* The number of decimal digits of n >= 0.
NumDigits(n) == CHOOSE d \in 1..12 : n < 10 ^ d /\ (d = 1 \/ n >= 10 ^ (d - 1))

\* The number a string of decimal digits denotes.
RECURSIVE DecValue(_)
DecValue(s) ==
  IF s = << >> THEN 0
  ELSE 10 * DecValue(SubSeq(s, 1, Len(s) - 1))
       + (CHOOSE d \in 0..9 : DigitChars[d + 1] = s[Len(s)])

\* The caption of img is the decimal form of its ID, zero-padded on the left
\* to at least width digits and never cut; its payload is prefix + caption.
CaptionPadded(img) ==
  /\ Len(img.caption) = Max(width, NumDigits(img.asset_id))
  /\ \A i \in 1..Len(img.caption) : img.caption[i] \in Range(DigitChars)
  /\ DecValue(img.caption) = img.asset_id
  /\ \A i \in 1..(Len(img.caption) - NumDigits(img.asset_id)) :
       img.caption[i] = "0"
  /\ Len(img.payload) = Len(prefix) + Len(img.caption)
  /\ SubSeq(img.payload, 1, Len(prefix)) = prefix
  /\ SubSeq(img.payload, Len(prefix) + 1, Len(img.payload)) = img.caption

\* C8 as stated: for every ID >= 0, every width and every prefix the label
\* gets the zero-padded caption and the payload prefix + caption: no width
\* makes the formatting fail.
C8_CaptionAnyWidth ==
  /\ error # "ValueError"
  /\ \A img \in PlacedImages : img.asset_id >= 0 => CaptionPadded(img)

\* C8 as amended: for every ID >= 0, every width >= 0 and every prefix, the
\* caption is the decimal form of the ID left-padded with zeros to at least
\* width digits, never truncated, without the prefix, and the QR payload is
\* the prefix followed by that caption.
C8_CaptionPadded ==
  width >= 0 =>
    /\ error # "ValueError"
    /\ \A img \in PlacedImages : img.asset_id >= 0 => CaptionPadded(img)

C8_Witness ==
  /\ width = 5
  /\ prefix = <<"A", "-">>
  /\ \E img \in PlacedImages :
       /\ img.asset_id = 7
       /\ img.caption = <<"0", "0", "0", "0", "7">>
       /\ img.payload = <<"A", "-", "0", "0", "0", "0", "7">>
  /\ \E img \in PlacedImages :
       /\ img.asset_id = 100
       /\ img.caption = <<"0", "0", "1", "0", "0">>

\* C9: the temporary directory is gone, with every image file in it, once
\* the rendering loop has been left, normally or by an error; and while
\* labels are saved and placed it exists and holds the file of every image
\* placed so far.
C9_TmpdirScoped ==
  /\ (pc \in {"output", "done", "failed"} /\ tmpdir # "none") =>
       (tmpdir = "removed" /\ tmpfiles = {})
  /\ tmpfiles # {} => tmpdir = "exists"
  /\ pc \in {"page", "label"} =>
       /\ tmpdir = "exists"
       /\ \A img \in PlacedImages : img.file \in tmpfiles
  /\ error # "FileNotFoundError"

C9_Witness ==
  /\ pc = "failed"
  /\ error = "ImageError"
  /\ tmpdir = "removed"
  /\ tmpfiles = {}
  /\ Len(pdf_pages) = 2
  /\ Len(pdf_pages[2]) = 3

\* Two 35 mm squares with top-left corners (x1, y1), (x2, y2) do not overlap.
Apart(a, b) ==
  \/ a.x + 350 <= b.x
  \/ b.x + 350 <= a.x
  \/ a.y + 350 <= b.y
  \/ b.y + 350 <= a.y

\* C10: the label at index idx of its page is at x = 7.5 + 40 * (idx mod 5),
\* y = 11 + 40 * (idx div 5) millimetres; the indices of a page map
\* one-to-one onto a 5-column by 7-row grid in row-major order, and no two
\* labels of a page overlap.
C10_GridLayout ==
  \A p \in 1..Len(pdf_pages) :
     LET page == pdf_pages[p]
     IN  /\ Len(page) <= 35
         /\ \A i \in 1..Len(page) :
              /\ page[i].x = 75 + 400 * ((i - 1) % 5)
              /\ page[i].y = 110 + 400 * ((i - 1) \div 5)
              /\ (page[i].x - 75) \div 400 \in 0..4
              /\ (page[i].y - 110) \div 400 \in 0..6
              /\ i > 1 =>
                   IF (i - 1) % 5 = 0
                   THEN /\ page[i].x = 75
                        /\ page[i].y = page[i - 1].y + 400
                   ELSE /\ page[i].x = page[i - 1].x + 400
                        /\ page[i].y = page[i - 1].y
         /\ (p < Len(pdf_pages) \/ pc \in {"output", "done"}) =>
              \A i, j \in 1..Len(page) : i < j => Apart(page[i], page[j])

C10_Witness ==
  /\ pc = "done"
  /\ Len(outfile) = 2
  /\ Len(outfile[1]) = 35
  /\ outfile[1][35].x = 1675
  /\ outfile[1][35].y = 2510
  /\ outfile[1][6].x = 75
  /\ outfile[1][6].y = 510

====
